---- MODULE Spec2Model ----
(***************************************************************************)
(* Undo/redo commands of the flow view (cognix/qtcore/flows/commands.py).  *)
(*                                                                         *)
(* The flow (graph model) and the view are collaborators of the commands;  *)
(* they are modelled by the operations the commands call on them.  Every   *)
(* node has one input port and one output port, so a port is identified by *)
(* its node and a connection by the pair <<output node, input node>>.      *)
(*                                                                         *)
(* A call of redo()/undo() that passes the guard is split into three       *)
(* kinds of steps: entering (guard set, frame pushed), the phases of the   *)
(* body redo_/undo_ (Step), and leaving (Return: guard cleared) or an      *)
(* exception leaving the call (Raise).  Between these steps the callbacks  *)
(* that the body triggers can call redo()/undo()/activate() of any         *)
(* command: this is the reentrancy the guard is about.                     *)
(***************************************************************************)
EXTENDS Integers, Sequences, FiniteSets, Bags, TLC

\* ---------------------------------------------------------------- bounds

\* Commands held at once (constructed and not discarded by the undo stack).
MaxCmds == 2
\* undo() calls the undo stack issues in one run.
MaxCycles == 2
\* Rejected calls recorded in the diagnostic counter.
MaxErrs == 1

\* ------------------------------------------------------------- universes

\* Nodes of the graphs the model starts from.
Nodes == {"A", "B", "C"}
\* Identities of the nodes created while the model runs (create_node,
\* load_components).
NewNodes == {"N1", "N2"}
AllNodes == Nodes \cup NewNodes
Drawings == {"D1"}
\* Identities of the drawings created while the model runs (create_drawing).
NewDrawings == {"D2"}
\* Positions and offsets (QPointF), as <<x, y>>.
Origin == <<0, 0>>
Offsets == {<<x, 0>> : x \in {-1, 0, 1}} \cup {<<0, 1>>}
Plus(p, q) == <<p[1] + q[1], p[2] + q[2]>>
Minus(p, q) == <<p[1] - q[1], p[2] - q[2]>>
NoNode == "none"
\* A connection: <<output node, input node>>.
Pairs == {p \in AllNodes \X AllNodes : p[1] # p[2]}

\* The items of the scene: of a node, of a drawing, of a connection.
NodeItem(n) == [kind |-> "node", a |-> n, b |-> n]
DrawingObject(d) == [kind |-> "drawing", a |-> d, b |-> d]
ConnectionItem(c) == [kind |-> "conn", a |-> c[1], b |-> c[2]]

VARIABLES
    flow,    \* Flow: [nodes, conns]; conns[p] = number of connections p
    view,    \* FlowView: [drawings, selected, deleted, pos, dpos]
    guard,   \* FlowUndoCommand._any_cmd_active
    cmds,    \* the commands constructed, in the order of the undo stack
    hist,    \* per command: what has been done with it (history)
    cursor,  \* QUndoStack index: cmds[1..cursor] are applied
    frames,  \* the redo_/undo_ bodies being executed, innermost last
    errs,    \* InfoMsgs.write_err calls so far (capped by MaxErrs)
    raised,  \* an exception has left redo()/undo()
    pitem    \* a PortItem and its PortItemPin (cognix/qtcore/ports/item.py)

\* The variables of the commands and their collaborators.
cmdvars == <<flow, view, guard, cmds, hist, cursor, frames, errs, raised>>

vars == <<flow, view, guard, cmds, hist, cursor, frames, errs, raised, pitem>>

\* ------------------------------------------------------ the flow (graph)

EmptyConns == [p \in Pairs |-> 0]

connected_inputs(f, o) == {i \in AllNodes : i # o /\ f.conns[<<o, i>>] > 0}

connected_output(f, i) ==
    IF \E o \in AllNodes : o # i /\ f.conns[<<o, i>>] > 0
    THEN CHOOSE o \in AllNodes : o # i /\ f.conns[<<o, i>>] > 0
    ELSE NoNode

\* ConnectionInfo: a value naming the two ends of a connection.
connection_info(c) == [out |-> c[1], inp |-> c[2]]

InfoPair(ci) == <<ci.out, ci.inp>>

add_node(f, n) == [f EXCEPT !.nodes = @ \cup {n}]

remove_node(f, n) == [f EXCEPT !.nodes = @ \ {n}]

add_connection(f, c) == [f EXCEPT !.conns[c] = @ + 1]

remove_connection(f, c) ==
    IF f.conns[c] > 0 THEN [f EXCEPT !.conns[c] = @ - 1] ELSE f

can_ports_connect(f, o, i) ==
    /\ o # i
    /\ o \in f.nodes /\ i \in f.nodes
    /\ connected_output(f, i) = NoNode

connect_ports(f, o, i) ==
    IF can_ports_connect(f, o, i) THEN add_connection(f, <<o, i>>) ELSE f

connect_from_info(f, ci) == connect_ports(f, ci.out, ci.inp)

disconnect_from_info(f, ci) == remove_connection(f, InfoPair(ci))

\* A flow the program can be in: connections join nodes of the flow, and an
\* input holds at most one connection.
ValidFlow(f) ==
    /\ f.nodes \subseteq AllNodes
    /\ \A p \in Pairs : f.conns[p] > 0 =>
          /\ f.conns[p] = 1
          /\ p[1] \in f.nodes /\ p[2] \in f.nodes
          /\ \A q \in Pairs : (f.conns[q] > 0 /\ q[2] = p[2]) => q = p

ConnSet(f) == {p \in Pairs : f.conns[p] > 0}

\* ------------------------------------------------------------- the view

select_items(v, items) == [v EXCEPT !.selected = items]

add_drawing(v, d) == [v EXCEPT !.drawings = @ \cup {d}]

remove_drawing(v, d) == [v EXCEPT !.drawings = @ \ {d}]

\* FlowView.add_drawing(drawing, posF): the drawing is put at posF.
add_drawing_at(v, d, posF) ==
    [v EXCEPT !.drawings = @ \cup {d}, !.dpos[d] = posF]

\* NodeGUI._on_deleted / _on_restored of the node's view representation.
on_deleted(v, n) == [v EXCEPT !.deleted = @ \cup {n}]

on_restored(v, n) == [v EXCEPT !.deleted = @ \ {n}]


\* QGraphicsItemGroup.setPos on a group just created over items: every
\* item of the group is translated by the offset d.
setPos(v, items, d) ==
    [v EXCEPT !.pos = [n \in Nodes |->
                          IF NodeItem(n) \in items THEN Plus(@[n], d) ELSE @[n]]]

\* The first k elements of S, in the order create_node / create_drawing
\* hands out new identities.
RECURSIVE Pick(_, _)
Pick(S, k) ==
    IF k = 0 \/ S = {} THEN <<>>
    ELSE LET x == CHOOSE y \in S : TRUE
         IN  <<x>> \o Pick(S \ {x}, k - 1)

Range(q) == {q[i] : i \in 1..Len(q)}

\* The call op(acc, x) of the operation named op.
Call(op, acc, x) ==
    CASE op = "add_node" -> add_node(acc, x)
      [] op = "remove_node" -> remove_node(acc, x)
      [] op = "add_connection" -> add_connection(acc, x)
      [] op = "remove_connection" -> remove_connection(acc, x)
      [] op = "connect_from_info" -> connect_from_info(acc, x)
      [] op = "disconnect_from_info" -> disconnect_from_info(acc, x)
      [] op = "add_drawing" -> add_drawing(acc, x)
      [] op = "remove_drawing" -> remove_drawing(acc, x)
      [] op = "on_deleted" -> on_deleted(acc, x)
      [] op = "on_restored" -> on_restored(acc, x)

\* A loop "for x in S: op(x)" over a collection S, from the state acc.
RECURSIVE ForEach(_, _, _)
ForEach(op, acc, S) ==
    IF S = {} THEN acc
    ELSE LET x == CHOOSE y \in S : TRUE
         IN  ForEach(op, Call(op, acc, x), S \ {x})

\* ------------------------------------------------------ command records

NoSnap == [taken |-> FALSE]

\* runs: redo_ bodies entered; undos: undo() calls of the stack; last: the
\* body that finished last; silent: the argument of activate; made: the
\* flow at construction; pre, post: the state when the first redo_ was
\* entered and when it returned; und: the state when the first undo_
\* returned; calls: the calls its bodies have made on the flow to connect
\* and disconnect; nested: the redo()/undo() calls that callbacks have made
\* while a body of the command was executing.
NewHist == [runs |-> 0, undos |-> 0, last |-> "none", silent |-> FALSE,
            made |-> flow, pre |-> NoSnap, post |-> NoSnap, und |-> NoSnap,
            calls |-> EmptyBag, nested |-> 0]

\* The calls api(x) of a loop "for x in S: api(x)", as a bag.
Called(api, S) == SetToBag({<<api, x>> : x \in S})

\* The calls a phase of a body has made on the flow, when it reports them.
CallsOf(r) == IF "calls" \in DOMAIN r THEN r.calls ELSE EmptyBag

Snap(c) == [taken |-> TRUE, flow |-> flow, view |-> view, cmd |-> c]

\* str(item), the default to_str of undo_text_multi.
to_str(i) ==
    IF i.kind = "conn" THEN "conn " \o i.a \o "-" \o i.b
    ELSE i.kind \o " " \o i.a

\* Mutant of undo_text_multi: the test for one item is made last.
undo_text_multi_one_last(items, command) ==
    IF Cardinality(items) = 0 THEN "Clear-" \o command
    ELSE IF Cardinality(items) >= 1 THEN "Multi-" \o command
    ELSE command \o " " \o to_str(CHOOSE i \in items : TRUE)

\* undo_text_multi(items, command), with items[0] the one item of a list
\* of length 1.
undo_text_multi(items, command) ==
    IF Cardinality(items) = 1
    THEN command \o " " \o to_str(CHOOSE i \in items : TRUE)
    ELSE IF Cardinality(items) = 0 THEN "Clear-" \o command
    ELSE "Multi-" \o command

\* FlowUndoCommand.__init__
FlowUndoCommand(type) == [type |-> type, activated |-> FALSE, pushed |-> FALSE]

\* SelectComponentsCommand.__init__
SelectComponentsCommand(new_items, prev_items) ==
    [type |-> "Select", activated |-> FALSE, pushed |-> FALSE,
     items |-> new_items, prev_items |-> prev_items,
     text |-> undo_text_multi(new_items, "Select")]

\* PlaceNodeCommand.__init__
PlaceNodeCommand ==
    [type |-> "PlaceNode", activated |-> FALSE, pushed |-> FALSE,
     node |-> NoNode, prev_selected |-> view.selected, text |-> ""]

\* Mutant of SelectedBroken: the node of the output port is not looked at.
SelectedBroken_unfiltered(items, nodes) ==
    {connection_info(<<i.a, i.b>>) : i \in {j \in items : j.kind = "conn"}}

\* PlaceDrawingCommand.__init__
PlaceDrawingCommand(posF, drawing) ==
    [type |-> "PlaceDrawing", activated |-> FALSE, pushed |-> FALSE,
     drawing |-> drawing, drawing_obj_place_pos |-> posF,
     drawing_obj_pos |-> posF, prev_selected |-> view.selected, text |-> ""]

\* RemoveComponentsCommand.__init__: the connections of the selected
\* connection items whose output node is not removed.
SelectedBroken(items, nodes) ==
    {connection_info(<<i.a, i.b>>) : i \in {j \in items : j.kind = "conn" /\ j.a \notin nodes}}

\* Mutant of InputConnections: the node at the other end is not looked at.
InputConnections_all(f, nodes, inside) ==
    {connection_info(<<connected_output(f, n), n>>) :
        n \in {m \in nodes : connected_output(f, m) # NoNode}}

\* RemoveComponentsCommand.__init__: the connections found at the inputs of
\* the removed nodes, with the other end outside (inside = FALSE) or
\* inside (inside = TRUE) the removed nodes.
InputConnections(f, nodes, inside) ==
    {connection_info(<<connected_output(f, n), n>>) :
        n \in {m \in nodes : /\ connected_output(f, m) # NoNode
                              /\ (connected_output(f, m) \in nodes) = inside}}

\* Mutant of OutputConnections: the loop over the outputs is missing.
OutputConnections_skipped(f, nodes, inside) == {}

\* RemoveComponentsCommand.__init__: the same at the outputs.
OutputConnections(f, nodes, inside) ==
    {connection_info(<<p[1], p[2]>>) :
        p \in {q \in nodes \X AllNodes : /\ q[2] \in connected_inputs(f, q[1])
                                          /\ (q[2] \in nodes) = inside}}

\* RemoveComponentsCommand.__init__
RemoveComponentsCommand(items, silent) ==
    LET nodes == {i.a : i \in {j \in items : j.kind = "node"}}
    IN  [type |-> "Remove", activated |-> FALSE, pushed |-> FALSE,
         items |-> items, selection |-> view.selected, silent |-> silent,
         text |-> undo_text_multi(items, "Delete"),
         node_items |-> {j \in items : j.kind = "node"},
         nodes |-> nodes,
         drawings |-> {i.a : i \in {j \in items : j.kind = "drawing"}},
         broken_connections |->
             SelectedBroken(items, nodes)
                 \cup InputConnections(flow, nodes, FALSE)
                 \cup OutputConnections(flow, nodes, FALSE),
         internal_connections |->
             InputConnections(flow, nodes, TRUE)
                 \cup OutputConnections(flow, nodes, TRUE)]

NoConnection == <<>>

\* Mutant of ConnectPortsCommand: the existing connection is not looked for.
ConnectPortsCommand_no_scan(out, inp, silent) ==
    [type |-> "Connect", activated |-> FALSE, pushed |-> FALSE,
     silent |-> silent, out |-> out, inp |-> inp,
     connection_info |-> connection_info(<<out, inp>>),
     connection |-> NoConnection,
     connecting |-> TRUE]

\* ConnectPortsCommand.__init__
ConnectPortsCommand(out, inp, silent) ==
    [type |-> "Connect", activated |-> FALSE, pushed |-> FALSE,
     silent |-> silent, out |-> out, inp |-> inp,
     connection_info |-> connection_info(<<out, inp>>),
     connection |-> IF inp \in connected_inputs(flow, out)
                    THEN <<out, inp>> ELSE NoConnection,
     connecting |-> inp \notin connected_inputs(flow, out)]

\* MoveComponentsCommand.__init__
MoveComponentsCommand(items_list, p_from, p_to) ==
    [type |-> "Move", activated |-> FALSE, pushed |-> FALSE,
     items_list |-> items_list, p_from |-> p_from, p_to |-> p_to,
     last_item_group_pos |-> p_to,
     text |-> undo_text_multi(items_list, "Move")]

\* PasteCommand.modify_data_positions
modify_data_positions(data, offset) ==
    [data EXCEPT !.nodes = [i \in 1..Len(@) |-> Plus(@[i], offset)],
                 !.drawings = [i \in 1..Len(@) |-> Plus(@[i], offset)]]

\* PasteCommand.__init__
PasteCommand(data, offset_for_middle_pos) ==
    [type |-> "Paste", activated |-> FALSE, pushed |-> FALSE,
     data |-> modify_data_positions(data, offset_for_middle_pos),
     nodes |-> <<>>, connections |-> {}, drawings |-> <<>>]

\* Node identities no flow and no command holds.
HeldNodes ==
    UNION {CASE cmds[k].type = "PlaceNode" -> {cmds[k].node}
             [] cmds[k].type = "Paste" -> Range(cmds[k].nodes)
             [] OTHER -> {}
           : k \in 1..Len(cmds)}

FreshNodes == NewNodes \ (flow.nodes \cup HeldNodes)

HeldDrawings ==
    UNION {IF cmds[k].type = "Paste" THEN Range(cmds[k].drawings) ELSE {}
           : k \in 1..Len(cmds)}

FreshDrawings == NewDrawings \ (view.drawings \cup HeldDrawings)

\* ------------------------------------------------- bodies redo_ / undo_

\* Mutant of PasteIsNew: the lists are not looked at.
PasteIsNew_always(c) == TRUE

\* PasteCommand.redo_: the condition of the branch that creates the
\* components.
PasteIsNew(c) == c.nodes = <<>> /\ c.connections = {} /\ c.drawings = <<>>

\* The branch the body of op takes on command c.
Branch(c, op) ==
    IF c.type = "Paste" /\ op = "redo"
    THEN IF PasteIsNew(c) THEN "new" ELSE "existing"
    ELSE "only"

\* The number of phases of the body of op ("redo" or "undo") of command c.
NumPhases(c, op) ==
    CASE c.type = "Remove" /\ op = "redo" -> 5
      [] c.type = "Remove" /\ op = "undo" -> 6
      [] c.type = "Paste" /\ op = "redo" -> IF PasteIsNew(c) THEN 3 ELSE 4
      [] c.type = "Paste" /\ op = "undo" -> 3
      [] c.type = "PlaceDrawing" /\ op = "redo" -> 2
      [] OTHER -> 1

\* SelectComponentsCommand.redo_ / undo_
Select_redo_(c, f, v) == [flow |-> f, view |-> select_items(v, c.items), cmd |-> c]

Select_undo_(c, f, v) == [flow |-> f, view |-> select_items(v, c.prev_items), cmd |-> c]

\* PlaceNodeCommand.__init__, on_node_placed: the slot of node_placed.
on_node_placed(c) == [c EXCEPT !.text = "Create"]

\* Mutant of PlaceNode_redo_: the stored node is not looked at.
PlaceNode_redo_always_creates(c, f, v, n) ==
    [flow |-> add_node(f, n), view |-> v,
     cmd |-> on_node_placed([c EXCEPT !.node = n]),
     calls |-> Called("create_node", {n})]

\* PlaceNodeCommand.redo_ when create_node / add_node succeed; n is the
\* identity create_node gives a new node.
PlaceNode_redo_(c, f, v, n) ==
    IF c.node # NoNode
    THEN [flow |-> add_node(f, c.node), view |-> v, cmd |-> on_node_placed(c),
          calls |-> Called("add_node", {c.node})]
    ELSE [flow |-> add_node(f, n), view |-> v,
          cmd |-> on_node_placed([c EXCEPT !.node = n]),
          calls |-> Called("create_node", {n})]

\* PlaceNodeCommand.undo_
PlaceNode_undo_(c, f, v) ==
    [flow |-> remove_node(f, c.node),
     view |-> select_items(v, c.prev_selected), cmd |-> c]

\* PlaceDrawingCommand.undo_: remove_component takes the drawing out of
\* the view.
PlaceDrawing_undo_(c, f, v) ==
    [flow |-> f,
     view |-> select_items(remove_drawing(v, c.drawing), c.prev_selected),
     cmd |-> [c EXCEPT !.drawing_obj_pos = v.dpos[c.drawing]]]

\* PlaceDrawingCommand.redo_, phase pc: add_drawing, then setText with
\* what the call self.drawing(True) returns, when it returns.
PlaceDrawing_redo_(c, pc, f, v) ==
    CASE pc = 1 -> [flow |-> f,
                    view |-> add_drawing_at(v, c.drawing, c.drawing_obj_pos),
                    cmd |-> c]
      [] pc = 2 -> [flow |-> f, view |-> v, cmd |-> [c EXCEPT !.text = "Drawing"]]

\* RemoveComponentsCommand.restore_/remove_ broken/internal connections
restore_broken_connections(c, f) == ForEach("connect_from_info", f, c.broken_connections)

restore_internal_connections(c, f) == ForEach("connect_from_info", f, c.internal_connections)

remove_broken_connections(c, f) == ForEach("disconnect_from_info", f, c.broken_connections)

remove_internal_connections(c, f) == ForEach("disconnect_from_info", f, c.internal_connections)

\* Mutant of Remove_redo_: the nodes are removed before the connections.
Remove_redo_nodes_first(c, pc, f, v) ==
    CASE pc = 1 -> [flow |-> ForEach("remove_node", f, c.nodes), view |-> v, cmd |-> c]
      [] pc = 2 -> [flow |-> remove_broken_connections(c, f), view |-> v, cmd |-> c,
                    calls |-> Called("disconnect_from_info", c.broken_connections)]
      [] pc = 3 -> [flow |-> remove_internal_connections(c, f), view |-> v, cmd |-> c,
                    calls |-> Called("disconnect_from_info", c.internal_connections)]
      [] pc = 4 -> [flow |-> f, view |-> ForEach("remove_drawing", v, c.drawings), cmd |-> c]
      [] pc = 5 -> [flow |-> f, view |-> ForEach("on_deleted", v, c.nodes), cmd |-> c]

\* RemoveComponentsCommand.redo_, phase pc
Remove_redo_(c, pc, f, v) ==
    CASE pc = 1 -> [flow |-> remove_broken_connections(c, f), view |-> v, cmd |-> c,
                    calls |-> Called("disconnect_from_info", c.broken_connections)]
      [] pc = 2 -> [flow |-> remove_internal_connections(c, f), view |-> v, cmd |-> c,
                    calls |-> Called("disconnect_from_info", c.internal_connections)]
      [] pc = 3 -> [flow |-> ForEach("remove_node", f, c.nodes), view |-> v, cmd |-> c]
      [] pc = 4 -> [flow |-> f, view |-> ForEach("remove_drawing", v, c.drawings), cmd |-> c]
      [] pc = 5 -> [flow |-> f, view |-> ForEach("on_deleted", v, c.nodes), cmd |-> c]

\* Mutant of Remove_undo_: the connections are restored before the nodes
\* and the drawings are added.
Remove_undo_connections_first(c, pc, f, v) ==
    CASE pc = 1 -> [flow |-> restore_broken_connections(c, f), view |-> v, cmd |-> c,
                    calls |-> Called("connect_from_info", c.broken_connections)]
      [] pc = 2 -> [flow |-> restore_internal_connections(c, f), view |-> v, cmd |-> c,
                    calls |-> Called("connect_from_info", c.internal_connections)]
      [] pc = 3 -> [flow |-> ForEach("add_node", f, c.nodes), view |-> v, cmd |-> c]
      [] pc = 4 -> [flow |-> f, view |-> ForEach("add_drawing", v, c.drawings), cmd |-> c]
      [] pc = 5 -> [flow |-> f, view |-> ForEach("on_restored", v, c.nodes), cmd |-> c]
      [] pc = 6 -> [flow |-> f, view |-> select_items(v, c.selection), cmd |-> c]

\* Mutant of Remove_undo_: no internal connections are restored.
Remove_undo_no_internal(c, pc, f, v) ==
    CASE pc = 1 -> [flow |-> ForEach("add_node", f, c.nodes), view |-> v, cmd |-> c]
      [] pc = 2 -> [flow |-> f, view |-> ForEach("add_drawing", v, c.drawings), cmd |-> c]
      [] pc = 3 -> [flow |-> restore_broken_connections(c, f), view |-> v, cmd |-> c]
      [] pc = 4 -> [flow |-> f, view |-> v, cmd |-> c]
      [] pc = 5 -> [flow |-> f, view |-> ForEach("on_restored", v, c.nodes), cmd |-> c]
      [] pc = 6 -> [flow |-> f, view |-> select_items(v, c.selection), cmd |-> c]

\* Mutant of Remove_undo_: the connections are looked up again in the flow
\* as undo_ finds it.
Remove_undo_recomputes(c, pc, f, v) ==
    CASE pc = 1 -> [flow |-> ForEach("add_node", f, c.nodes), view |-> v,
                    cmd |-> [c EXCEPT !.broken_connections =
                                          SelectedBroken(c.items, c.nodes)
                                              \cup InputConnections(f, c.nodes, FALSE)
                                              \cup OutputConnections(f, c.nodes, FALSE),
                                      !.internal_connections =
                                          InputConnections(f, c.nodes, TRUE)
                                              \cup OutputConnections(f, c.nodes, TRUE)]]
      [] pc = 2 -> [flow |-> f, view |-> ForEach("add_drawing", v, c.drawings), cmd |-> c]
      [] pc = 3 -> [flow |-> restore_broken_connections(c, f), view |-> v, cmd |-> c,
                    calls |-> Called("connect_from_info", c.broken_connections)]
      [] pc = 4 -> [flow |-> restore_internal_connections(c, f), view |-> v, cmd |-> c,
                    calls |-> Called("connect_from_info", c.internal_connections)]
      [] pc = 5 -> [flow |-> f, view |-> ForEach("on_restored", v, c.nodes), cmd |-> c]
      [] pc = 6 -> [flow |-> f, view |-> select_items(v, c.selection), cmd |-> c]

\* RemoveComponentsCommand.undo_, phase pc
Remove_undo_(c, pc, f, v) ==
    CASE pc = 1 -> [flow |-> ForEach("add_node", f, c.nodes), view |-> v, cmd |-> c]
      [] pc = 2 -> [flow |-> f, view |-> ForEach("add_drawing", v, c.drawings), cmd |-> c]
      [] pc = 3 -> [flow |-> restore_broken_connections(c, f), view |-> v, cmd |-> c,
                    calls |-> Called("connect_from_info", c.broken_connections)]
      [] pc = 4 -> [flow |-> restore_internal_connections(c, f), view |-> v, cmd |-> c,
                    calls |-> Called("connect_from_info", c.internal_connections)]
      [] pc = 5 -> [flow |-> f, view |-> ForEach("on_restored", v, c.nodes), cmd |-> c]
      [] pc = 6 -> [flow |-> f, view |-> select_items(v, c.selection), cmd |-> c]

\* Mutant of Connect_undo_: the mode is not looked at.
Connect_undo_always_disconnects(c, f, v) ==
    [flow |-> disconnect_from_info(f, c.connection_info), view |-> v, cmd |-> c]

\* Mutant of Connect_undo_: the mode is decided again from the flow as
\* undo_ finds it.
Connect_undo_rescans(c, f, v) ==
    LET d == [c EXCEPT !.connecting = c.inp \notin connected_inputs(f, c.out)]
    IN  IF d.connecting
        THEN [flow |-> disconnect_from_info(f, d.connection_info), view |-> v, cmd |-> d,
              calls |-> Called("disconnect_from_info", {d.connection_info})]
        ELSE [flow |-> connect_from_info(f, d.connection_info), view |-> v, cmd |-> d,
              calls |-> Called("connect_from_info", {d.connection_info})]

\* ConnectPortsCommand.undo_
Connect_undo_(c, f, v) ==
    IF c.connecting
    THEN [flow |-> disconnect_from_info(f, c.connection_info), view |-> v, cmd |-> c,
          calls |-> Called("disconnect_from_info", {c.connection_info})]
    ELSE [flow |-> connect_from_info(f, c.connection_info), view |-> v, cmd |-> c,
          calls |-> Called("connect_from_info", {c.connection_info})]

\* Mutant of Connect_redo_: the stored connection is not looked at.
Connect_redo_always_new(c, f, v) ==
    IF c.connecting
    THEN [flow |-> connect_ports(f, c.out, c.inp), view |-> v,
          cmd |-> [c EXCEPT !.connection =
                      IF can_ports_connect(f, c.out, c.inp)
                      THEN <<c.out, c.inp>> ELSE NoConnection],
          calls |-> Called("connect_ports", {connection_info(<<c.out, c.inp>>)})]
    ELSE [flow |-> disconnect_from_info(f, c.connection_info), view |-> v, cmd |-> c,
          calls |-> Called("disconnect_from_info", {c.connection_info})]

\* ConnectPortsCommand.redo_; connect_ports returns the connection it has
\* made, or None.
Connect_redo_(c, f, v) ==
    IF c.connecting
    THEN IF c.connection # NoConnection
         THEN [flow |-> connect_from_info(f, c.connection_info), view |-> v, cmd |-> c,
               calls |-> Called("connect_from_info", {c.connection_info})]
         ELSE [flow |-> connect_ports(f, c.out, c.inp), view |-> v,
               cmd |-> [c EXCEPT !.connection =
                           IF can_ports_connect(f, c.out, c.inp)
                           THEN <<c.out, c.inp>> ELSE NoConnection],
               calls |-> Called("connect_ports", {connection_info(<<c.out, c.inp>>)})]
    ELSE [flow |-> disconnect_from_info(f, c.connection_info), view |-> v, cmd |-> c,
          calls |-> Called("disconnect_from_info", {c.connection_info})]

\* MoveComponentsCommand.undo_
Move_undo_(c, f, v) ==
    [flow |-> f, view |-> setPos(v, c.items_list, c.p_from),
     cmd |-> [c EXCEPT !.last_item_group_pos = c.p_from]]

\* MoveComponentsCommand.redo_
Move_redo_(c, f, v) ==
    [flow |-> f,
     view |-> setPos(v, c.items_list, Minus(c.p_to, c.last_item_group_pos)),
     cmd |-> c]

\* PasteCommand.select_new_components_in_view
select_new_components_in_view(c, v) ==
    select_items(v, {DrawingObject(d) : d \in Range(c.drawings)}
                        \cup {NodeItem(n) : n \in Range(c.nodes)})

\* PasteCommand.create_drawings: ids are the identities create_drawing
\* gives the new drawings.
create_drawings(c, f, v, ids) ==
    [flow |-> f, view |-> ForEach("add_drawing", v, Range(ids)),
     cmd |-> [c EXCEPT !.drawings = @ \o ids],
     calls |-> Called("create_drawings", {c.data})]

\* Flow.load_components: a node per descriptor, with the identities ids,
\* and the connections described between them.
load_components(c, f, v, ids) ==
    LET conns == {<<ids[p[1]], ids[p[2]]>> : p \in c.data.connections}
    IN  [flow |-> ForEach("add_connection", ForEach("add_node", f, Range(ids)), conns),
         view |-> v,
         cmd |-> [c EXCEPT !.nodes = ids, !.connections = conns],
         calls |-> Called("load_components", {c.data})]

\* Mutant of add_existing_components: the connections are added before
\* the nodes.
add_existing_connections_first(c, pc, f, v) ==
    CASE pc = 1 -> [flow |-> ForEach("add_connection", f, c.connections), view |-> v, cmd |-> c]
      [] pc = 2 -> [flow |-> ForEach("add_node", f, Range(c.nodes)), view |-> v, cmd |-> c]
      [] pc = 3 -> [flow |-> f, view |-> ForEach("add_drawing", v, Range(c.drawings)), cmd |-> c]
      [] pc = 4 -> [flow |-> f, view |-> select_new_components_in_view(c, v), cmd |-> c]

\* PasteCommand.add_existing_components, phase pc
add_existing_components(c, pc, f, v) ==
    CASE pc = 1 -> [flow |-> ForEach("add_node", f, Range(c.nodes)), view |-> v, cmd |-> c]
      [] pc = 2 -> [flow |-> ForEach("add_connection", f, c.connections), view |-> v, cmd |-> c]
      [] pc = 3 -> [flow |-> f, view |-> ForEach("add_drawing", v, Range(c.drawings)), cmd |-> c]
      [] pc = 4 -> [flow |-> f, view |-> select_new_components_in_view(c, v), cmd |-> c]

\* PasteCommand.redo_, phase pc of branch br
Paste_redo_(c, br, pc, f, v) ==
    IF br = "new"
    THEN CASE pc = 1 -> create_drawings(c, f, v, Pick(FreshDrawings, Len(c.data.drawings)))
           [] pc = 2 -> load_components(c, f, v, Pick(FreshNodes, Len(c.data.nodes)))
           [] pc = 3 -> [flow |-> f, view |-> select_new_components_in_view(c, v), cmd |-> c]
    ELSE add_existing_components(c, pc, f, v)

\* PasteCommand.undo_, phase pc
Paste_undo_(c, pc, f, v) ==
    CASE pc = 1 -> [flow |-> ForEach("remove_connection", f, c.connections), view |-> v, cmd |-> c]
      [] pc = 2 -> [flow |-> ForEach("remove_node", f, Range(c.nodes)), view |-> v, cmd |-> c]
      [] pc = 3 -> [flow |-> f, view |-> ForEach("remove_drawing", v, Range(c.drawings)), cmd |-> c]

\* Whether the identities phase pc of the body needs are left.
HasIds(c, op, br, pc) ==
    IF c.type = "Paste" /\ op = "redo" /\ br = "new"
    THEN /\ pc = 1 => Cardinality(FreshDrawings) >= Len(c.data.drawings)
         /\ pc = 2 => Cardinality(FreshNodes) >= Len(c.data.nodes)
    ELSE TRUE

\* Phase pc of branch br of the body of op of command c on flow f and view
\* v; n is a fresh node identity for the bodies that create a node.
Body(c, op, br, pc, f, v, n) ==
    CASE c.type = "Remove" /\ op = "redo" -> Remove_redo_(c, pc, f, v)
      [] c.type = "Move" /\ op = "redo" -> Move_redo_(c, f, v)
      [] c.type = "Move" /\ op = "undo" -> Move_undo_(c, f, v)
      [] c.type = "Paste" /\ op = "redo" -> Paste_redo_(c, br, pc, f, v)
      [] c.type = "Paste" /\ op = "undo" -> Paste_undo_(c, pc, f, v)
      [] c.type = "Remove" /\ op = "undo" -> Remove_undo_(c, pc, f, v)
      [] c.type = "Connect" /\ op = "redo" -> Connect_redo_(c, f, v)
      [] c.type = "Connect" /\ op = "undo" -> Connect_undo_(c, f, v)
      [] c.type = "Select" /\ op = "redo" -> Select_redo_(c, f, v)
      [] c.type = "Select" /\ op = "undo" -> Select_undo_(c, f, v)
      [] c.type = "PlaceNode" /\ op = "redo" -> PlaceNode_redo_(c, f, v, n)
      [] c.type = "PlaceNode" /\ op = "undo" -> PlaceNode_undo_(c, f, v)
      [] c.type = "PlaceDrawing" /\ op = "redo" -> PlaceDrawing_redo_(c, pc, f, v)
      [] c.type = "PlaceDrawing" /\ op = "undo" -> PlaceDrawing_undo_(c, f, v)

\* Whether the body needs a fresh node identity.
Creates(c, op) == c.type = "PlaceNode" /\ op = "redo" /\ c.node = NoNode

\* Whether the body can raise: PlaceNodeCommand.redo_ re-raises what
\* create_node or add_node raise; PlaceDrawingCommand.redo_ calls the
\* drawing object, self.drawing(True), which raises TypeError unless
\* DrawingObject (not in this source) defines the call.
CanRaise(c, op) == c.type \in {"PlaceNode", "PlaceDrawing"} /\ op = "redo"

\* The phases of the body in which it can raise.
RaisingPhases(c, op) == IF c.type = "PlaceDrawing" THEN {2} ELSE {1}

\* ------------------------------------------- FlowUndoCommand: the guard

Top == frames[Len(frames)]

\* The body of op entered on command k, in state c: n is the number of
\* phases of the branch the body takes, calls the calls it has made on the
\* flow to connect and disconnect.
Frame(k, op, c) ==
    [cmd |-> k, op |-> op, pc |-> 1, br |-> Branch(c, op), n |-> NumPhases(c, op),
     calls |-> EmptyBag]

\* Mutant of LogErr: nothing is written.
LogErr_silent == errs' = errs

\* InfoMsgs.write_err
LogErr == errs' = IF errs < MaxErrs THEN errs + 1 ELSE errs

\* Mutant of redo: the rejected call clears the guard.
redo_rejection_clears_guard(k, cs, hs) ==
    IF ~cs[k].activated
    THEN /\ cmds' = cs /\ hist' = hs
         /\ UNCHANGED <<guard, frames, errs>>
    ELSE IF guard
    THEN /\ LogErr
         /\ guard' = FALSE
         /\ cmds' = cs /\ hist' = hs
         /\ UNCHANGED frames
    ELSE /\ guard' = TRUE
         /\ frames' = Append(frames, Frame(k, "redo", cs[k]))
         /\ cmds' = cs
         /\ hist' = [hs EXCEPT ![k].runs = @ + 1,
                               ![k].pre = IF @.taken THEN @ ELSE Snap(cs[k])]
         /\ UNCHANGED errs

\* Mutant of redo: the guard is not looked at.
redo_unguarded(k, cs, hs) ==
    IF ~cs[k].activated
    THEN /\ cmds' = cs /\ hist' = hs
         /\ UNCHANGED <<guard, frames, errs>>
    ELSE /\ guard' = TRUE
         /\ frames' = Append(frames, Frame(k, "redo", cs[k]))
         /\ cmds' = cs
         /\ hist' = [hs EXCEPT ![k].runs = @ + 1,
                               ![k].pre = IF @.taken THEN @ ELSE Snap(cs[k])]
         /\ UNCHANGED errs

\* Mutant of redo: the activation of the command is not looked at.
redo_ignores_activated(k, cs, hs) ==
    IF guard
    THEN /\ errs' = IF errs < MaxErrs THEN errs + 1 ELSE errs
         /\ cmds' = cs /\ hist' = hs
         /\ UNCHANGED <<guard, frames>>
    ELSE /\ guard' = TRUE
         /\ frames' = Append(frames, Frame(k, "redo", cs[k]))
         /\ cmds' = cs
         /\ hist' = [hs EXCEPT ![k].runs = @ + 1,
                               ![k].pre = IF @.taken THEN @ ELSE Snap(cs[k])]
         /\ UNCHANGED errs

\* FlowUndoCommand.redo up to the call of redo_, on command k, with cs and
\* hs the commands and histories the caller has prepared.
redo(k, cs, hs) ==
    IF ~cs[k].activated
    THEN /\ cmds' = cs /\ hist' = hs
         /\ UNCHANGED <<guard, frames, errs>>
    ELSE IF guard
    THEN /\ LogErr
         /\ cmds' = cs /\ hist' = hs
         /\ UNCHANGED <<guard, frames>>
    ELSE /\ guard' = TRUE
         /\ frames' = Append(frames, Frame(k, "redo", cs[k]))
         /\ cmds' = cs
         /\ hist' = [hs EXCEPT ![k].runs = @ + 1,
                               ![k].pre = IF @.taken THEN @ ELSE Snap(cs[k])]
         /\ UNCHANGED errs

\* Mutant of undo: the guard is not looked at.
undo_unguarded(k, cs, hs) ==
    /\ guard' = TRUE
    /\ frames' = Append(frames, Frame(k, "undo", cs[k]))
    /\ cmds' = cs
    /\ hist' = hs
    /\ UNCHANGED errs

\* FlowUndoCommand.undo up to the call of undo_.
undo(k, cs, hs) ==
    IF guard
    THEN /\ LogErr
         /\ cmds' = cs /\ hist' = hs
         /\ UNCHANGED <<guard, frames>>
    ELSE /\ guard' = TRUE
         /\ frames' = Append(frames, Frame(k, "undo", cs[k]))
         /\ cmds' = cs
         /\ hist' = hs
         /\ UNCHANGED errs

\* Mutant of activate: the forward action is never executed.
activate_only_marks(k, silent) ==
    /\ cmds' = [cmds EXCEPT ![k].activated = TRUE]
    /\ hist' = [hist EXCEPT ![k].silent = silent]
    /\ UNCHANGED <<guard, frames, errs>>

\* FlowUndoCommand.activate
activate(k, silent) ==
    LET cs == [cmds EXCEPT ![k].activated = TRUE]
        hs == [hist EXCEPT ![k].silent = silent]
    IN  IF ~silent
        THEN redo(k, cs, hs)
        ELSE /\ cmds' = cs /\ hist' = hs
             /\ UNCHANGED <<guard, frames, errs>>

\* --------------------------------------------------------------- actions

RECURSIVE TotalUndos(_)
TotalUndos(hs) ==
    IF hs = <<>> THEN 0 ELSE hs[1].undos + TotalUndos(Tail(hs))

AllReady == \A k \in 1..Len(cmds) : cmds[k].pushed /\ cmds[k].activated

\* A command is constructed, while no command of the undo stack is undone
\* (the stack would drop the undone commands when it takes the new one).
Construct(c) ==
    /\ Len(cmds) < MaxCmds
    /\ AllReady
    /\ cursor = Len(cmds)
    /\ cmds' = Append(cmds, c)
    /\ hist' = Append(hist, NewHist)
    /\ UNCHANGED <<flow, view, guard, cursor, frames, errs, raised, pitem>>

NewSelect(new_items, prev_items) ==
    Construct(SelectComponentsCommand(new_items, prev_items))

NewPlaceNode == Construct(PlaceNodeCommand)

NewRemove(items, silent) == Construct(RemoveComponentsCommand(items, silent))

NewMove(items_list, p_from, p_to) ==
    Construct(MoveComponentsCommand(items_list, p_from, p_to))

NewPaste(data, offset) == Construct(PasteCommand(data, offset))

\* The view constructs the command for two ports that are connected or can
\* be connected.
NewConnect(out, inp, silent) ==
    /\ out \in flow.nodes /\ inp \in flow.nodes /\ out # inp
    /\ inp \in connected_inputs(flow, out) \/ can_ports_connect(flow, out, inp)
    /\ Construct(ConnectPortsCommand(out, inp, silent))

\* The view constructs the command for a drawing that is not in the scene
\* and that no command holds.
NewPlaceDrawing(posF, d) ==
    /\ d \notin view.drawings
    /\ \A k \in 1..Len(cmds) :
          cmds[k].type = "PlaceDrawing" => cmds[k].drawing # d
    /\ Construct(PlaceDrawingCommand(posF, d))

\* QUndoStack.push: the stack takes the command and calls its redo().
Push(k) ==
    /\ k \in 1..Len(cmds)
    /\ ~cmds[k].pushed
    /\ cursor' = k
    /\ redo(k, [cmds EXCEPT ![k].pushed = TRUE], hist)
    /\ UNCHANGED <<flow, view, raised, pitem>>

\* The view activates the command it has pushed.
Activate(k, silent) ==
    /\ k \in 1..Len(cmds)
    /\ cmds[k].pushed /\ ~cmds[k].activated
    /\ activate(k, silent)
    /\ UNCHANGED <<flow, view, cursor, raised, pitem>>

\* QUndoStack.undo, from the event loop.
StackUndo ==
    /\ frames = <<>>
    /\ AllReady
    /\ cursor > 0
    /\ TotalUndos(hist) < MaxCycles
    /\ cursor' = cursor - 1
    /\ undo(cursor, cmds, [hist EXCEPT ![cursor].undos = @ + 1])
    /\ UNCHANGED <<flow, view, raised, pitem>>

\* QUndoStack.redo, from the event loop.
StackRedo ==
    /\ frames = <<>>
    /\ AllReady
    /\ cursor < Len(cmds)
    /\ cursor' = cursor + 1
    /\ redo(cursor + 1, cmds, hist)
    /\ UNCHANGED <<flow, view, raised, pitem>>

\* A callback run by the executing body calls redo() of a command.
NestedRedo(k) ==
    /\ frames # <<>>
    /\ errs < MaxErrs
    /\ k \in 1..Len(cmds)
    /\ redo(k, cmds, hist)
    /\ UNCHANGED <<flow, view, cursor, raised, pitem>>

\* A callback run by the executing body calls undo() of a command.
NestedUndo(k) ==
    /\ frames # <<>>
    /\ errs < MaxErrs
    /\ k \in 1..Len(cmds)
    /\ cmds[k].activated
    /\ undo(k, cmds, hist)
    /\ UNCHANGED <<flow, view, cursor, raised, pitem>>

\* Rejected nested calls in one outer call.
MaxNested == 2

\* A callback run by the executing body calls redo() of a command, as
\* callbacks have done fewer than MaxNested times in the bodies of the
\* executing command.
NestedRedoAttempt(k) ==
    /\ frames # <<>>
    /\ hist[Top.cmd].nested < MaxNested
    /\ k \in 1..Len(cmds)
    /\ cmds[k].activated
    /\ redo(k, cmds, [hist EXCEPT ![Top.cmd].nested = @ + 1])
    /\ UNCHANGED <<flow, view, cursor, raised, pitem>>

\* The same for undo().
NestedUndoAttempt(k) ==
    /\ frames # <<>>
    /\ hist[Top.cmd].nested < MaxNested
    /\ k \in 1..Len(cmds)
    /\ cmds[k].activated
    /\ undo(k, cmds, [hist EXCEPT ![Top.cmd].nested = @ + 1])
    /\ UNCHANGED <<flow, view, cursor, raised, pitem>>

\* FlowView.clear_selection, from the event loop: the user clicks on the
\* empty scene.
ClearSelection ==
    /\ frames = <<>>
    /\ AllReady
    /\ view.selected # {}
    /\ view' = [view EXCEPT !.selected = {}]
    /\ UNCHANGED <<flow, guard, cmds, hist, cursor, frames, errs, raised, pitem>>

\* FlowView.select_items, from the event loop: the user selects items of
\* the empty selection's scene.
SelectItems(s) ==
    /\ frames = <<>>
    /\ AllReady
    /\ s # {}
    /\ view.selected = {}
    /\ view' = select_items(view, s)
    /\ UNCHANGED <<flow, guard, cmds, hist, cursor, frames, errs, raised, pitem>>

\* DrawingObject.finished(), from the event loop: the position of a
\* drawing of the scene is recalculated from its points.
DrawingFinished(d, p) ==
    /\ frames = <<>>
    /\ AllReady
    /\ d \in view.drawings
    /\ view.dpos[d] # p
    /\ view' = [view EXCEPT !.dpos[d] = p]
    /\ UNCHANGED <<flow, guard, cmds, hist, cursor, frames, errs, raised, pitem>>

\* The innermost body executes its next phase.
Step ==
    /\ frames # <<>>
    /\ Top.pc <= Top.n
    /\ HasIds(cmds[Top.cmd], Top.op, Top.br, Top.pc)
    /\ \E n \in IF Creates(cmds[Top.cmd], Top.op) THEN FreshNodes ELSE {NoNode} :
         LET r == Body(cmds[Top.cmd], Top.op, Top.br, Top.pc, flow, view, n)
         IN  /\ flow' = r.flow
             /\ view' = r.view
             /\ cmds' = [cmds EXCEPT ![Top.cmd] = r.cmd]
             /\ frames' = [frames EXCEPT ![Len(frames)].pc = @ + 1,
                                         ![Len(frames)].calls = @ (+) CallsOf(r)]
    /\ UNCHANGED <<guard, hist, cursor, errs, raised, pitem>>

\* The assignment that follows the call of redo_ / undo_ in redo() / undo().
ClearGuard == guard' = FALSE

\* The innermost body has finished: redo()/undo() clears the guard and
\* returns.
Return ==
    /\ frames # <<>>
    /\ Top.pc > Top.n
    /\ ClearGuard
    /\ frames' = SubSeq(frames, 1, Len(frames) - 1)
    /\ hist' = [hist EXCEPT ![Top.cmd].last = Top.op,
                            ![Top.cmd].calls = @ (+) Top.calls,
                            ![Top.cmd].post =
                                IF Top.op = "redo" /\ ~@.taken
                                THEN Snap(cmds[Top.cmd]) ELSE @,
                            ![Top.cmd].und =
                                IF Top.op = "undo" /\ ~@.taken
                                THEN Snap(cmds[Top.cmd]) ELSE @]
    /\ UNCHANGED <<flow, view, cmds, cursor, errs, raised, pitem>>

\* Mutant of Raise: the node is stored and node_placed is emitted before
\* the exception.
Raise_after_placing ==
    /\ frames # <<>>
    /\ Top.pc <= Top.n
    /\ CanRaise(cmds[Top.cmd], Top.op)
    /\ Top.pc \in RaisingPhases(cmds[Top.cmd], Top.op)
    /\ frames' = <<>>
    /\ raised' = TRUE
    /\ cmds' = [cmds EXCEPT ![Top.cmd] =
                   on_node_placed([@ EXCEPT !.node =
                       IF @ = NoNode THEN CHOOSE n \in NewNodes : TRUE ELSE @])]
    /\ UNCHANGED <<flow, view, guard, hist, cursor, errs, pitem>>

\* The innermost body raises: the exception leaves every redo()/undo() on
\* the call stack, none of which catches it.
Raise ==
    /\ frames # <<>>
    /\ Top.pc <= Top.n
    /\ CanRaise(cmds[Top.cmd], Top.op)
    /\ Top.pc \in RaisingPhases(cmds[Top.cmd], Top.op)
    /\ frames' = <<>>
    /\ raised' = TRUE
    /\ UNCHANGED <<flow, view, guard, cmds, hist, cursor, errs, pitem>>

\* ----------------------------------------- port items (ports/item.py)

\* Ports in a node's port list (node._inputs or node._outputs).
MaxPorts == 2

\* PinState
PinState == {"DISCONNECTED", "CONNECTED", "VALID", "INVALID"}

\* A port of the node: its type_ and whether the flow holds a connection
\* at it.
Ports == [type_ : {"data", "exec"}, connected : BOOLEAN]

\* None, as the result of the port lookup.
NoPort == [type_ |-> "None", connected |-> FALSE]

\* No exception.
NoExc == "None"

\* PortItem.__init__ and PortItemPin.__init__ for the port at index
\* port_index (counted from 0) of port_list.
PortItem(port_list, port_index) ==
    [port_list |-> port_list, port_index |-> port_index,
     state |-> "DISCONNECTED", hovered |-> FALSE, label |-> "None",
     painted |-> FALSE, tool_tip |-> FALSE, highlighted |-> FALSE,
     exc |-> NoExc]

\* The value of pitem while no port item is looked at.
NoPortItem == PortItem(<<>>, 0)

\* PortItem.port / PortItemPin.port
port(it) ==
    IF Len(it.port_list) <= it.port_index THEN NoPort
    ELSE it.port_list[it.port_index + 1]

\* An AttributeError leaves the operation op: nothing else is changed.
AttributeError(it, op) == [it EXCEPT !.exc = op]

\* is_connected(port) raises on None: port.node is read.
is_connected_raises(p) == p = NoPort

is_connected(p) == p.connected

\* PortItemPin.set_state
set_state(it, value, protect_connection) ==
    IF is_connected_raises(port(it)) THEN AttributeError(it, "set_state")
    ELSE [it EXCEPT !.state =
             IF ~(is_connected(port(it)) /\ protect_connection)
             THEN value ELSE "CONNECTED"]

\* PortItem.update
update(it) ==
    IF port(it) = NoPort THEN it
    ELSE [it EXCEPT !.label = it.state]

\* PortItem.port_connected: the assignment to pin.state is set_state.
port_connected(it) ==
    LET s == set_state(it, "CONNECTED", TRUE)
    IN  IF s.exc # it.exc THEN s ELSE update(s)

\* PortItem.port_disconnected
port_disconnected(it) ==
    LET s == set_state(it, "DISCONNECTED", TRUE)
    IN  IF s.exc # it.exc THEN s ELSE update(s)

\* PortItemPin.paint
paint(it) ==
    IF port(it) = NoPort THEN it
    ELSE [it EXCEPT !.painted = TRUE]

\* PortItemPin.hoverEnterEvent: self.port.type_ is read first.
hoverEnterEvent(it) ==
    IF port(it) = NoPort THEN AttributeError(it, "hoverEnterEvent")
    ELSE [it EXCEPT !.tool_tip = IF port(it).type_ = "data" THEN TRUE ELSE @,
                    !.highlighted = IF port(it).connected THEN TRUE ELSE @,
                    !.hovered = TRUE]

\* PortItemPin.hoverLeaveEvent: connections(None) reads port.node.
hoverLeaveEvent(it) ==
    IF port(it) = NoPort THEN AttributeError(it, "hoverLeaveEvent")
    ELSE [it EXCEPT !.highlighted = IF port(it).connected THEN FALSE ELSE @,
                    !.hovered = FALSE]

\* The port item as an operation finds it: no exception is pending.
Clean == [pitem EXCEPT !.exc = NoExc]

Update ==
    /\ pitem' = update(Clean)
    /\ UNCHANGED cmdvars

PortConnected ==
    /\ pitem' = port_connected(Clean)
    /\ UNCHANGED cmdvars

PortDisconnected ==
    /\ pitem' = port_disconnected(Clean)
    /\ UNCHANGED cmdvars

SetState(value, protect_connection) ==
    /\ pitem' = set_state(Clean, value, protect_connection)
    /\ UNCHANGED cmdvars

Paint ==
    /\ pitem' = paint(Clean)
    /\ UNCHANGED cmdvars

HoverEnter ==
    /\ pitem' = hoverEnterEvent(Clean)
    /\ UNCHANGED cmdvars

HoverLeave ==
    /\ pitem' = hoverLeaveEvent(Clean)
    /\ UNCHANGED cmdvars

\* The node is restructured: the port at index i leaves its port list (the
\* list the item holds is the node's list itself).
RemovePort(i) ==
    /\ i \in 1..Len(pitem.port_list)
    /\ pitem' = [pitem EXCEPT !.port_list =
                    SubSeq(@, 1, i - 1) \o SubSeq(@, i + 1, Len(@))]
    /\ UNCHANGED cmdvars

\* The node gets a port at the end of its port list.
AddPort(p) ==
    /\ Len(pitem.port_list) < MaxPorts
    /\ pitem' = [pitem EXCEPT !.port_list = Append(@, p)]
    /\ UNCHANGED cmdvars

\* The flow connects or disconnects the port at index i.
ToggleConnection(i) ==
    /\ i \in 1..Len(pitem.port_list)
    /\ pitem' = [pitem EXCEPT !.port_list[i].connected = ~@]
    /\ UNCHANGED cmdvars

\* ------------------------------------------------------- specifications

EmptyView ==
    [drawings |-> {}, selected |-> {}, deleted |-> {},
     pos |-> [n \in Nodes |-> Origin],
     dpos |-> [d \in Drawings \cup NewDrawings |-> Origin]]

InitCommon ==
    /\ guard = FALSE
    /\ cmds = <<>>
    /\ hist = <<>>
    /\ cursor = 0
    /\ frames = <<>>
    /\ errs = 0
    /\ raised = FALSE
    /\ pitem = NoPortItem

\* The reentrancy guard, with Select and PlaceNode commands.
SelChoices == {{}, {NodeItem("A")}}

InitGuard ==
    /\ flow = [nodes |-> {"A"}, conns |-> EmptyConns]
    /\ view = EmptyView
    /\ InitCommon

NextGuard ==
    \/ \E s \in SelChoices : NewSelect(s, view.selected)
    \/ NewPlaceNode
    \/ \E k \in 1..MaxCmds : Push(k)
    \/ \E k \in 1..MaxCmds, silent \in BOOLEAN : Activate(k, silent)
    \/ StackUndo
    \/ StackRedo
    \/ \E k \in 1..MaxCmds : NestedRedo(k)
    \/ \E k \in 1..MaxCmds : NestedUndo(k)
    \/ Step
    \/ Return
    \/ Raise

SpecGuard == InitGuard /\ [][NextGuard]_vars

\* One RemoveComponents command over any graph of Nodes and any items.
ConnsOf(S) == [p \in Pairs |-> IF p \in S THEN 1 ELSE 0]

Flows ==
    {f \in {[nodes |-> N, conns |-> ConnsOf(S)] :
                N \in SUBSET Nodes, S \in SUBSET {p \in Pairs : p[1] \in Nodes /\ p[2] \in Nodes}} :
        ValidFlow(f)}

ItemsOf(f, v) ==
    {NodeItem(n) : n \in f.nodes} \cup {DrawingObject(d) : d \in v.drawings}
        \cup {ConnectionItem(p) : p \in ConnSet(f)}

InitRemove ==
    /\ flow \in Flows
    /\ view \in {[EmptyView EXCEPT !.drawings = Drawings, !.selected = s] :
                   s \in {{}, {NodeItem(n) : n \in flow.nodes}}}
    /\ InitCommon

NextRemove ==
    \/ /\ cmds = <<>>
       /\ \E items \in SUBSET ItemsOf(flow, view) : NewRemove(items, FALSE)
    \/ \E k \in 1..MaxCmds : Push(k)
    \/ \E k \in 1..MaxCmds : Activate(k, FALSE)
    \/ StackUndo
    \/ StackRedo
    \/ ClearSelection
    \/ Step
    \/ Return

SpecRemove == InitRemove /\ [][NextRemove]_vars

\* ConnectPorts commands over any graph of Nodes.
InitConnect ==
    /\ flow \in Flows
    /\ view = EmptyView
    /\ InitCommon

NextConnect ==
    \/ /\ frames = <<>>
       /\ \E out \in Nodes, inp \in Nodes : NewConnect(out, inp, FALSE)
    \/ \E k \in 1..MaxCmds : Push(k)
    \/ \E k \in 1..MaxCmds : Activate(k, FALSE)
    \/ StackUndo
    \/ StackRedo
    \/ Step
    \/ Return

SpecConnect == InitConnect /\ [][NextConnect]_vars

\* One MoveComponents command over the items of two nodes.
InitMove ==
    /\ flow = [nodes |-> {"A", "B"}, conns |-> EmptyConns]
    /\ view = EmptyView
    /\ InitCommon

NextMove ==
    \/ /\ cmds = <<>>
       /\ \E items \in SUBSET {NodeItem(n) : n \in flow.nodes},
             p_from \in Offsets, p_to \in Offsets : NewMove(items, p_from, p_to)
    \/ \E k \in 1..MaxCmds : Push(k)
    \/ \E k \in 1..MaxCmds : Activate(k, FALSE)
    \/ StackUndo
    \/ StackRedo
    \/ Step
    \/ Return

SpecMove == InitMove /\ [][NextMove]_vars

\* One Paste command, over clipboard data of up to two nodes, a
\* connection between them and a drawing.
PasteData ==
    {[nodes |-> ns, connections |-> cs, drawings |-> ds] :
        ns \in {<<>>, <<Origin>>, <<Origin, <<1, 0>>>>},
        cs \in {{}, {<<1, 2>>}},
        ds \in {<<>>, <<Origin>>}}

InitPaste ==
    /\ flow \in {[nodes |-> {}, conns |-> EmptyConns],
                  [nodes |-> {"A", "B"}, conns |-> ConnsOf({<<"A", "B">>})]}
    /\ view \in {EmptyView, [EmptyView EXCEPT !.drawings = Drawings]}
    /\ InitCommon

NextPaste ==
    \/ /\ cmds = <<>>
       /\ \E data \in PasteData :
             /\ data.connections # {} => Len(data.nodes) = 2
             /\ NewPaste(data, <<1, 1>>)
    \/ \E k \in 1..MaxCmds : Push(k)
    \/ \E k \in 1..MaxCmds : Activate(k, FALSE)
    \/ StackUndo
    \/ StackRedo
    \/ Step
    \/ Return

SpecPaste == InitPaste /\ [][NextPaste]_vars

\* Select commands whose bodies run callbacks that call redo() and undo()
\* more than once.
NextNested ==
    \/ \E s \in SelChoices : NewSelect(s, view.selected)
    \/ \E k \in 1..MaxCmds : Push(k)
    \/ \E k \in 1..MaxCmds : Activate(k, FALSE)
    \/ StackUndo
    \/ StackRedo
    \/ \E k \in 1..MaxCmds : NestedRedoAttempt(k)
    \/ \E k \in 1..MaxCmds : NestedUndoAttempt(k)
    \/ Step
    \/ Return

SpecNested == InitGuard /\ [][NextNested]_vars

\* One Move, Select or RemoveComponents command over any items of the
\* scene.
InitLabel ==
    /\ flow = [nodes |-> {"A", "B"}, conns |-> [EmptyConns EXCEPT ![<<"A", "B">>] = 1]]
    /\ view = [EmptyView EXCEPT !.drawings = Drawings]
    /\ InitCommon

NextLabel ==
    \/ /\ cmds = <<>>
       /\ \E items \in SUBSET ItemsOf(flow, view) : NewRemove(items, FALSE)
    \/ /\ cmds = <<>>
       /\ \E items \in SUBSET ItemsOf(flow, view) : NewSelect(items, view.selected)
    \/ /\ cmds = <<>>
       /\ \E items \in SUBSET {NodeItem(n) : n \in flow.nodes} :
             NewMove(items, Origin, <<1, 0>>)
    \/ \E k \in 1..MaxCmds : Push(k)
    \/ \E k \in 1..MaxCmds : Activate(k, FALSE)
    \/ StackUndo
    \/ StackRedo
    \/ Step
    \/ Return

SpecLabel == InitLabel /\ [][NextLabel]_vars

\* PlaceNode commands, with selections that change in between.
InitPlaceNode ==
    /\ flow = [nodes |-> {"A"}, conns |-> EmptyConns]
    /\ view \in {EmptyView, [EmptyView EXCEPT !.selected = {NodeItem("A")}]}
    /\ InitCommon

NextPlaceNode ==
    \/ /\ frames = <<>>
       /\ NewPlaceNode
    \/ \E k \in 1..MaxCmds : Push(k)
    \/ \E k \in 1..MaxCmds : Activate(k, FALSE)
    \/ StackUndo
    \/ StackRedo
    \/ ClearSelection
    \/ \E s \in SelChoices : SelectItems(s)
    \/ Step
    \/ Return
    \/ Raise

SpecPlaceNode == InitPlaceNode /\ [][NextPlaceNode]_vars

\* One PlaceDrawing command, for a drawing whose position is recalculated
\* after it is placed.
InitPlaceDrawing ==
    /\ flow = [nodes |-> {"A"}, conns |-> EmptyConns]
    /\ view \in {EmptyView, [EmptyView EXCEPT !.selected = {NodeItem("A")}]}
    /\ InitCommon

NextPlaceDrawing ==
    \/ /\ frames = <<>>
       /\ \E posF \in Offsets, d \in Drawings : NewPlaceDrawing(posF, d)
    \/ \E k \in 1..MaxCmds : Push(k)
    \/ \E k \in 1..MaxCmds : Activate(k, FALSE)
    \/ StackUndo
    \/ StackRedo
    \/ ClearSelection
    \/ \E d \in Drawings, p \in Offsets : DrawingFinished(d, p)
    \/ Step
    \/ Return
    \/ Raise

SpecPlaceDrawing == InitPlaceDrawing /\ [][NextPlaceDrawing]_vars

\* A port item over the port list of its node, which the node restructures.
PortLists == UNION {[1..n -> Ports] : n \in 1..MaxPorts}

InitPort ==
    /\ flow = [nodes |-> {}, conns |-> EmptyConns]
    /\ view = EmptyView
    /\ guard = FALSE
    /\ cmds = <<>>
    /\ hist = <<>>
    /\ cursor = 0
    /\ frames = <<>>
    /\ errs = 0
    /\ raised = FALSE
    /\ \E l \in PortLists : \E i \in 0..(Len(l) - 1) : pitem = PortItem(l, i)

NextPort ==
    \/ Update
    \/ PortConnected
    \/ PortDisconnected
    \/ \E value \in PinState, protect \in BOOLEAN : SetState(value, protect)
    \/ Paint
    \/ HoverEnter
    \/ HoverLeave
    \/ \E i \in 1..MaxPorts : RemovePort(i)
    \/ \E p \in Ports : AddPort(p)
    \/ \E i \in 1..MaxPorts : ToggleConnection(i)

SpecPort == InitPort /\ [][NextPort]_vars

\* ------------------------------------------------------------ properties

Executing == frames # <<>>

RemoveCmds == {k \in 1..Len(cmds) : cmds[k].type = "Remove"}

Recorded(c) == {InfoPair(ci) : ci \in c.broken_connections \cup c.internal_connections}

\* C1: once a RemoveComponents command has been activated, every undo_
\* leaves the flow with exactly the nodes and connections it had before the
\* removal, and every redo_ leaves exactly the flow without the removed
\* nodes and without the recorded connections, whatever the number of
\* undo/redo cycles.
C1_RemoveUndoRedo ==
    \A k \in RemoveCmds :
        (~Executing /\ hist[k].pre.taken) =>
            LET c == cmds[k]
                pre == hist[k].pre.flow
            IN  /\ hist[k].last = "undo" => flow = pre
                /\ hist[k].last = "redo" =>
                      /\ flow.nodes = pre.nodes \ c.nodes
                      /\ \A p \in Pairs : flow.conns[p] =
                            IF \/ p[1] \in c.nodes \/ p[2] \in c.nodes
                               \/ ConnectionItem(p) \in c.items
                            THEN 0 ELSE pre.conns[p]
                      /\ flow = hist[k].post.flow

\* C1 witness: a removal with broken and internal connections, after the
\* redo_ of its second undo/redo cycle.
C1_Witness ==
    \E k \in RemoveCmds :
        /\ ~Executing
        /\ hist[k].undos = 2 /\ hist[k].runs = 3 /\ hist[k].last = "redo"
        /\ cmds[k].broken_connections # {}
        /\ cmds[k].internal_connections # {}

\* C2: while a body redo_/undo_ is executing with the guard set, no call of
\* redo()/undo() starts another body, and the step in which the outer call
\* returns leaves the guard False.
C2_NestedCallRejected ==
    [][(Executing /\ guard) =>
          /\ Len(frames') <= Len(frames)
          /\ \A k \in 1..Len(hist) : hist'[k].runs = hist[k].runs
          /\ (Len(frames') < Len(frames) /\ raised' = raised) => ~guard']_vars

\* C2 witness: a nested call was rejected and the outer call has returned.
C2_Witness == errs > 0 /\ ~Executing /\ ~raised /\ ~guard

\* C3 (as claimed): whenever no redo()/undo() call is in progress the guard
\* is False, also after an exception has left the call.
C3_GuardClearedOnEveryExit == ~Executing => ~guard

\* C4: at most one body redo_/undo_ is executing, over all commands.
C4_OneBodyAtATime == Len(frames) <= 1

\* C4 witness: two commands, one executing, and a call of the other was
\* rejected meanwhile.
C4_Witness == Len(frames) = 1 /\ Len(cmds) = 2 /\ errs > 0 /\ ~raised

\* C5: of the connections of the flow at construction, those with both ends
\* in the removed nodes are internal, those with exactly one end in them are
\* broken, and no connection is both.
C5_Partition ==
    \A k \in RemoveCmds :
        LET c == cmds[k]
        IN  /\ \A p \in ConnSet(hist[k].made) :
                  /\ (p[1] \in c.nodes /\ p[2] \in c.nodes)
                        => connection_info(p) \in c.internal_connections
                  /\ ((p[1] \in c.nodes) # (p[2] \in c.nodes))
                        => connection_info(p) \in c.broken_connections
            /\ c.internal_connections \cap c.broken_connections = {}

\* C5 witness: a removal with an internal connection, a connection leaving
\* the removed nodes and one entering them.
C5_Witness ==
    \E k \in RemoveCmds :
        /\ cmds[k].internal_connections # {}
        /\ \E ci \in cmds[k].broken_connections : ci.out \in cmds[k].nodes
        /\ \E ci \in cmds[k].broken_connections : ci.inp \in cmds[k].nodes

ConnectCmds == {k \in 1..Len(cmds) : cmds[k].type = "Connect"}

ThePair(c) == <<c.out, c.inp>>

\* C6: when a ConnectPorts command on an unconnected pair has been
\* activated and a second one is then constructed on the same pair, the
\* second one is in disconnecting mode and its activation leaves the pair
\* unconnected; no pair ever carries two connections.
C6_SecondCommandDisconnects ==
    /\ \A p \in Pairs : flow.conns[p] <= 1
    /\ \A k \in ConnectCmds :
          (/\ k + 1 \in ConnectCmds
           /\ ThePair(cmds[k + 1]) = ThePair(cmds[k])
           /\ cmds[k].connecting) =>
              /\ ~cmds[k + 1].connecting
              /\ (~Executing /\ cursor = k + 1 /\ hist[k + 1].last = "redo")
                    => flow.conns[ThePair(cmds[k])] = 0

\* C6 witness: the second command on the pair has been activated.
C6_Witness ==
    \E k \in ConnectCmds :
        /\ k + 1 \in ConnectCmds
        /\ ThePair(cmds[k + 1]) = ThePair(cmds[k])
        /\ cmds[k].connecting /\ hist[k].post.taken
        /\ hist[k].post.flow.conns[ThePair(cmds[k])] = 1
        /\ ~Executing /\ cursor = k + 1 /\ hist[k + 1].last = "redo"
        /\ flow.conns[ThePair(cmds[k])] = 0

\* C9: for the ConnectPorts command the undo stack has undone last, the
\* flow is the flow of its construction; for the one it has (re)done last,
\* the flow is the flow after its activation, in which only the pair's
\* connection differs from the flow of its construction: present in
\* connecting mode, absent in disconnecting mode.
C9_ConnectUndoRedo ==
    \A k \in ConnectCmds :
        (~Executing /\ hist[k].post.taken) =>
            LET c == cmds[k]
                made == hist[k].made
            IN  /\ (cursor = k - 1 /\ hist[k].last = "undo") => flow = made
                /\ (cursor = k /\ hist[k].last = "redo") =>
                      /\ flow = hist[k].post.flow
                      /\ flow.nodes = made.nodes
                      /\ \A p \in Pairs : flow.conns[p] =
                            IF p # ThePair(c) THEN made.conns[p]
                            ELSE IF c.connecting THEN 1 ELSE 0

\* C9 witness: commands of both modes, the later one redone after an undo.
C9_Witness ==
    \E k \in ConnectCmds, j \in ConnectCmds :
        /\ cmds[j].connecting /\ ~cmds[k].connecting
        /\ ~Executing /\ cursor = k /\ hist[k].last = "redo"
        /\ hist[k].runs = 2 /\ hist[k].undos = 1

PasteCmds == {k \in 1..Len(cmds) : cmds[k].type = "Paste"}

\* C7: once the first redo_ of a Paste command has returned, after every
\* redo_ the command holds the same nodes, connections and drawings as
\* after the first one, they are in the flow and the view once each, and
\* the flow is the flow after the first redo_.
C7_PasteReaddsSameInstances ==
    \A k \in PasteCmds :
        (~Executing /\ hist[k].post.taken /\ hist[k].last = "redo") =>
            LET c == cmds[k]
                first == hist[k].post
            IN  /\ c.nodes = first.cmd.nodes
                /\ c.connections = first.cmd.connections
                /\ c.drawings = first.cmd.drawings
                /\ Range(c.nodes) \subseteq flow.nodes
                /\ \A p \in c.connections : flow.conns[p] = 1
                /\ Range(c.drawings) \subseteq view.drawings
                /\ flow = first.flow
                /\ view.drawings = first.view.drawings

\* C7 witness: two pasted nodes, their connection and a drawing, after the
\* redo_ of the second undo/redo cycle.
C7_Witness ==
    \E k \in PasteCmds :
        /\ ~Executing /\ hist[k].last = "redo"
        /\ hist[k].runs = 3 /\ hist[k].undos = 2
        /\ Len(cmds[k].nodes) = 2 /\ cmds[k].connections # {}
        /\ Len(cmds[k].drawings) = 1

MoveCmds == {k \in 1..Len(cmds) : cmds[k].type = "Move"}

\* C8 (as claimed): for any p_from and p_to, after every redo_ the items
\* are where they were after activation, and after every undo_ where they
\* were after the first undo_.
C8_MoveNoDrift ==
    \A k \in MoveCmds :
        ~Executing =>
            /\ (hist[k].last = "redo" /\ hist[k].post.taken)
                  => view.pos = hist[k].post.view.pos
            /\ (hist[k].last = "undo" /\ hist[k].und.taken)
                  => view.pos = hist[k].und.view.pos

\* The step in which command k is activated.
Activation(k) == ~cmds[k].activated /\ cmds'[k].activated

Entered(k) ==
    /\ hist'[k].runs = hist[k].runs + 1
    /\ frames' = Append(frames, Frame(k, "redo", cmds'[k]))

NotEntered(k) == hist'[k].runs = hist[k].runs /\ frames' = frames

\* C10 (as claimed): activate(silent=False) enters redo_ once in every
\* state, activate(silent=True) never.
C10_ActivateAlwaysExecutes ==
    [][\A k \in 1..Len(cmds) :
          Activation(k) =>
              IF hist'[k].silent THEN NotEntered(k) ELSE Entered(k)]_vars

\* C10 (amended): activate marks the command activated; with silent=False
\* it enters redo_ once if the guard is clear, and is rejected (redo_ not
\* entered) if the guard is set; with silent=True redo_ is not entered.
C10_ActivateExecutesUnlessGuarded ==
    [][\A k \in 1..Len(cmds) :
          Activation(k) =>
              IF hist'[k].silent \/ guard THEN NotEntered(k) ELSE Entered(k)]_vars

\* C10 witness: a command activated with silent=False from inside another
\* command's body, whose redo_ was not entered.
C10_Witness ==
    \E k \in 1..Len(cmds) :
        /\ Executing /\ Top.cmd # k
        /\ cmds[k].activated /\ ~hist[k].silent /\ hist[k].runs = 0

\* The step in which the undo stack takes command k (and calls its redo()).
Pushing(k) == ~cmds[k].pushed /\ cmds'[k].pushed

\* C11: the redo() the undo stack calls when it takes a command that is not
\* activated enters no body and leaves the guard (set or clear), the flow
\* and the view as they are; a command has run no redo_ before it is
\* activated, and its activation with silent=False at top level enters
\* redo_ for the first time.
C11_UnactivatedRedoIsNoOp ==
    [][\A k \in 1..Len(cmds) :
          /\ ~cmds[k].activated => hist[k].runs = 0
          /\ Pushing(k) =>
                /\ guard' = guard /\ frames' = frames /\ errs' = errs
                /\ flow' = flow /\ view' = view
                /\ hist'[k].runs = 0
          /\ (Activation(k) /\ ~hist'[k].silent /\ ~guard) =>
                /\ hist'[k].runs = 1
                /\ Entered(k)]_vars

\* C11 witness: a command that was pushed and then activated with
\* silent=False at top level: its redo_ has run once and has returned.
C11_Witness ==
    \E k \in 1..Len(cmds) :
        /\ cmds[k].pushed /\ cmds[k].activated /\ ~hist[k].silent
        /\ hist[k].runs = 1 /\ hist[k].undos = 0 /\ hist[k].last = "redo"
        /\ hist[k].pre.taken /\ hist[k].post.taken
        /\ ~Executing /\ ~guard /\ ~raised

\* The step in which the undo stack calls undo() or redo() of a command it
\* holds.
StackCall ==
    /\ cursor' # cursor
    /\ \A k \in 1..Len(cmds) : cmds[k].pushed
    /\ Len(cmds') = Len(cmds)

\* What activate() itself does to command k before it calls redo().
Marked(k) == [cmds[k] EXCEPT !.activated = TRUE]

\* C12: a call of redo()/undo() made while the guard is set writes one
\* error, starts no body, raises nothing, and leaves the guard, the flow,
\* the view and every command as they are (the calls of the undo stack are
\* seen by the move of its index, the others by the error they write).
C12_RejectedCallIsLoggedNoOp ==
    [][(errs' # errs \/ (guard /\ StackCall)) =>
          /\ guard /\ guard'
          /\ errs < MaxErrs => errs' = errs + 1
          /\ frames' = frames
          /\ raised' = raised
          /\ flow' = flow /\ view' = view
          /\ Len(cmds') = Len(cmds)
          /\ \A k \in 1..Len(cmds) :
                cmds'[k] = cmds[k] \/ (Activation(k) /\ cmds'[k] = Marked(k))]_vars

\* C12 witness: an undo() of the undo stack was rejected (the guard was
\* left set by an exception): the error is written and the command is
\* as it was after its redo_.
C12_Witness ==
    \E k \in 1..Len(cmds) :
        /\ hist[k].undos > 0 /\ hist[k].last = "redo"
        /\ errs > 0 /\ guard /\ ~Executing
        /\ cmds[k] = hist[k].post.cmd

PlaceNodeCmds == {k \in 1..Len(cmds) : cmds[k].type = "PlaceNode"}

\* C13: the step in which create_node or add_node raises in the redo_ of a
\* PlaceNode command ends every redo()/activate() call in progress with the
\* exception, and leaves the command as it was: node_placed was not
\* emitted (the text is not set by this redo_) and the stored node is
\* unchanged, None when this is the first redo_; the flow is unchanged.
C13_PlaceNodeFailurePropagates ==
    [][(raised' /\ ~raised) =>
          /\ Executing /\ cmds[Top.cmd].type = "PlaceNode" /\ Top.op = "redo"
          /\ frames' = <<>>
          /\ cmds' = cmds
          /\ hist[Top.cmd].runs = 1 =>
                (cmds'[Top.cmd].node = NoNode /\ cmds'[Top.cmd].text = "")
          /\ flow' = flow]_vars

\* C13 witness: the first redo_ of a PlaceNode command has raised: no node
\* is stored and no text is set.
C13_Witness ==
    \E k \in PlaceNodeCmds :
        /\ raised /\ ~Executing
        /\ cmds[k].activated /\ hist[k].runs = 1 /\ hist[k].last = "none"
        /\ cmds[k].node = NoNode /\ cmds[k].text = ""

\* The stored index is no longer inside the port list.
Stale(it) == Len(it.port_list) <= it.port_index

\* C14 (as claimed): no operation of a port item whose stored index is
\* outside the port list raises.
C14_StaleIndexNeverRaises == Stale(pitem) => pitem.exc = NoExc

\* The number of ends of the connection that are nodes of the set.
EndsIn(ci, nodes) == Cardinality({ci.out, ci.inp} \cap nodes)

\* C15 (as claimed): every broken connection has exactly one end among the
\* removed nodes, every internal connection both, for any list of items.
C15_BrokenHasExactlyOneEnd ==
    \A k \in RemoveCmds :
        /\ \A ci \in cmds[k].broken_connections : EndsIn(ci, cmds[k].nodes) = 1
        /\ \A ci \in cmds[k].internal_connections : EndsIn(ci, cmds[k].nodes) = 2

\* C15 (amended): every internal connection has both ends among the
\* removed nodes; a broken connection has exactly one, or none when it is
\* the connection of a selected connection item between two nodes that are
\* not removed.
C15_BrokenHasAtMostOneEnd ==
    \A k \in RemoveCmds :
        /\ \A ci \in cmds[k].broken_connections :
              \/ EndsIn(ci, cmds[k].nodes) = 1
              \/ /\ EndsIn(ci, cmds[k].nodes) = 0
                 /\ ConnectionItem(InfoPair(ci)) \in cmds[k].items
        /\ \A ci \in cmds[k].internal_connections : EndsIn(ci, cmds[k].nodes) = 2

\* C15 witness: a removal whose broken connections are one at a removed
\* node and one selected between two nodes that stay.
C15_Witness ==
    \E k \in RemoveCmds :
        /\ \E ci \in cmds[k].broken_connections : EndsIn(ci, cmds[k].nodes) = 1
        /\ \E ci \in cmds[k].broken_connections : EndsIn(ci, cmds[k].nodes) = 0

\* The body of op of a RemoveComponents command is executing, and c is
\* the command.
InBody(c, op) ==
    /\ Executing
    /\ cmds[Top.cmd].type = "Remove" /\ Top.op = op
    /\ c = cmds[Top.cmd]

\* No recorded connection of c at node n is in the flow.
Detached(c, n) ==
    \A p \in Recorded(c) : (p[1] = n \/ p[2] = n) => flow.conns[p] = 0

\* C16: while redo_ of a RemoveComponents command executes, the broken
\* connections are gone after its first phase, the internal ones after the
\* second; the nodes are in the flow until the third phase and gone after
\* it; the drawings are in the view until the fourth phase and gone after
\* it; the views of the nodes are notified of the deletion in the fifth
\* phase and not before. So every node leaves the flow with no recorded
\* connection at it.
C16_RedoOrder ==
    \A k \in RemoveCmds :
        InBody(cmds[k], "redo") =>
            LET c == cmds[k]
                pc == Top.pc
            IN  /\ pc > 1 => \A ci \in c.broken_connections : flow.conns[InfoPair(ci)] = 0
                /\ pc > 2 => \A ci \in c.internal_connections : flow.conns[InfoPair(ci)] = 0
                /\ pc <= 3 => c.nodes \subseteq flow.nodes
                /\ pc = 3 => \A n \in c.nodes : Detached(c, n)
                /\ pc > 3 => c.nodes \cap flow.nodes = {}
                /\ pc <= 4 => c.drawings \subseteq view.drawings
                /\ pc > 4 => c.drawings \cap view.drawings = {}
                /\ pc <= 5 => c.nodes \cap view.deleted = {}
                /\ pc > 5 => c.nodes \subseteq view.deleted

\* C16 witness: the redo_ that follows an undo_ has removed the nodes of a
\* removal with broken and internal connections and a drawing, and has not
\* yet removed the drawing.
C16_Witness ==
    \E k \in RemoveCmds :
        /\ InBody(cmds[k], "redo") /\ Top.pc = 4
        /\ hist[k].undos = 1
        /\ cmds[k].broken_connections # {}
        /\ cmds[k].internal_connections # {}
        /\ cmds[k].drawings # {}

\* C17: while undo_ of a RemoveComponents command executes, no recorded
\* connection is in the flow before the third phase; the nodes are in the
\* flow after the first phase and the drawings in the view after the
\* second, so that both ends of every recorded connection are in the flow
\* when the third and fourth phases reconnect; after the fourth phase
\* every recorded connection is in the flow; the views of the nodes are
\* notified of the restoration in the fifth phase and not before; the
\* sixth, last phase leaves the selection captured at construction.
C17_UndoOrder ==
    \A k \in RemoveCmds :
        InBody(cmds[k], "undo") =>
            LET c == cmds[k]
                pc == Top.pc
            IN  /\ pc <= 3 => \A p \in Recorded(c) : flow.conns[p] = 0
                /\ pc > 1 => c.nodes \subseteq flow.nodes
                /\ pc > 2 => c.drawings \subseteq view.drawings
                /\ pc \in {3, 4} =>
                      \A p \in Recorded(c) : p[1] \in flow.nodes /\ p[2] \in flow.nodes
                /\ pc > 4 => \A p \in Recorded(c) : flow.conns[p] = 1
                /\ pc <= 5 => c.nodes \subseteq view.deleted
                /\ pc > 5 => c.nodes \cap view.deleted = {}
                /\ pc <= 6 => view.selected = hist[k].post.view.selected
                                  \/ view.selected = {}
                /\ pc > 6 => view.selected = c.selection

\* C17 witness: undo_ has reconnected and notified, and is about to
\* restore a selection that had been cleared, for a removal with broken and
\* internal connections and a drawing.
C17_Witness ==
    \E k \in RemoveCmds :
        /\ InBody(cmds[k], "undo") /\ Top.pc = 6
        /\ cmds[k].selection # {} /\ view.selected = {}
        /\ cmds[k].broken_connections # {}
        /\ cmds[k].internal_connections # {}
        /\ cmds[k].drawings # {}

\* C18: the broken and internal connections of a RemoveComponents command
\* are those its constructor finds in the flow of its construction, and no
\* step (activate, redo_, undo_, whatever the flow has become) changes
\* them, the nodes, the node items or the drawings of the command.
C18_RemoveSetsFrozen ==
    [][\A k \in RemoveCmds :
          LET c == cmds[k]
              made == hist[k].made
          IN  /\ c.broken_connections =
                     SelectedBroken(c.items, c.nodes)
                         \cup InputConnections(made, c.nodes, FALSE)
                         \cup OutputConnections(made, c.nodes, FALSE)
              /\ c.internal_connections =
                     InputConnections(made, c.nodes, TRUE)
                         \cup OutputConnections(made, c.nodes, TRUE)
              /\ cmds'[k].broken_connections = c.broken_connections
              /\ cmds'[k].internal_connections = c.internal_connections
              /\ cmds'[k].nodes = c.nodes
              /\ cmds'[k].node_items = c.node_items
              /\ cmds'[k].drawings = c.drawings]_vars

\* C18 witness: a removal with broken and internal connections, nodes and
\* a drawing after the redo_ of its second undo/redo cycle, in a flow that
\* is no longer the flow of its construction.
C18_Witness ==
    \E k \in RemoveCmds :
        /\ ~Executing /\ hist[k].last = "redo" /\ hist[k].undos = 2
        /\ flow # hist[k].made
        /\ cmds[k].broken_connections # {}
        /\ cmds[k].internal_connections # {}
        /\ cmds[k].drawings # {}

\* The connections command c has recorded.
RecordedInfos(c) == c.broken_connections \cup c.internal_connections

\* C19: when redo_ of a RemoveComponents command has executed its phases,
\* it has called disconnect_from_info once for every recorded connection
\* and made no other call to connect or disconnect; when undo_ has, it has
\* called connect_from_info once for every recorded connection and made no
\* other such call; distinct recorded infos are distinct connections.
C19_EachConnectionOnce ==
    \A k \in RemoveCmds :
        LET c == cmds[k]
            api == IF Top.op = "redo" THEN "disconnect_from_info"
                   ELSE "connect_from_info"
        IN  /\ Cardinality(Recorded(c)) = Cardinality(RecordedInfos(c))
            /\ (Executing /\ Top.cmd = k /\ Top.pc > Top.n) =>
                  /\ BagToSet(Top.calls) = {<<api, ci>> : ci \in RecordedInfos(c)}
                  /\ \A ci \in RecordedInfos(c) : CopiesIn(<<api, ci>>, Top.calls) = 1

\* C19 witness: undo_ has executed its phases for a removal with an
\* internal connection (found at its output node and at its input node)
\* and a selected connection item that is also found at a port of a
\* removed node.
C19_Witness ==
    \E k \in RemoveCmds :
        /\ InBody(cmds[k], "undo") /\ Top.pc > Top.n
        /\ cmds[k].internal_connections # {}
        /\ \E ci \in cmds[k].broken_connections :
              /\ ConnectionItem(InfoPair(ci)) \in cmds[k].items
              /\ ci.inp \in cmds[k].nodes

\* The calls of api that the bodies of command k have made so far.
CallsSoFar(k, api) ==
    LET e == <<api, connection_info(ThePair(cmds[k]))>>
    IN  CopiesIn(e, hist[k].calls)
            + (IF Executing /\ Top.cmd = k THEN CopiesIn(e, Top.calls) ELSE 0)

C21_ModeDecidedAtConstruction ==
    [][\A k \in ConnectCmds :
          LET c == cmds[k]
          IN  /\ ~c.connecting <=> c.inp \in connected_inputs(hist[k].made, c.out)
              /\ cmds'[k].connecting = c.connecting
              /\ cmds'[k].out = c.out /\ cmds'[k].inp = c.inp
              /\ cmds'[k].connection_info = c.connection_info]_vars

\* C21 witness: a command in disconnecting mode after the redo_ that
\* follows its undo_, in a flow where its pair is no longer connected, next
\* to a command in connecting mode that has been executed.
C21_Witness ==
    \E k \in ConnectCmds, j \in ConnectCmds :
        /\ ~Executing
        /\ ~cmds[k].connecting /\ hist[k].runs = 2 /\ hist[k].last = "redo"
        /\ cmds[k].inp \notin connected_inputs(flow, cmds[k].out)
        /\ cmds[j].connecting /\ hist[j].post.taken

\* The calls of api with the data of Paste command k that its bodies have
\* made so far.
Materialized(k, api) ==
    LET e == <<api, cmds[k].data>>
    IN  CopiesIn(e, hist[k].calls)
            + (IF Executing /\ Top.cmd = k THEN CopiesIn(e, Top.calls) ELSE 0)

\* C22 (as claimed): for any clipboard data, a Paste command calls
\* create_drawings and load_components at most once each, and every redo_
\* after the first takes the branch that re-adds the existing components.
C22_MaterializedAtMostOnce ==
    \A k \in PasteCmds :
        /\ Materialized(k, "create_drawings") <= 1
        /\ Materialized(k, "load_components") <= 1
        /\ (Executing /\ Top.cmd = k /\ Top.op = "redo" /\ hist[k].runs > 1)
              => Top.br = "existing"

\* The body of op of Paste command k is executing.
InPaste(k, op) ==
    /\ Executing /\ Top.cmd = k /\ Top.op = op
    /\ cmds[k].type = "Paste"

\* The nodes at the ends of the connections of a Paste command.
EndNodes(c) == {p[1] : p \in c.connections} \cup {p[2] : p \in c.connections}

\* C23: while undo_ of a Paste command executes, the created connections
\* are gone after its first phase, the created nodes are in the flow until
\* the second phase and gone after it, the created drawings are in the view
\* until the third phase and gone after it; during and after undo_ the
\* command holds the nodes, connections and drawings its first redo_ has
\* left; while the redo_ that follows executes, the nodes are in the flow
\* after its first phase, and no connection of the command is in the flow
\* before the second phase, which finds both ends of each in the flow.
C23_PasteUndoOrder ==
    \A k \in PasteCmds :
        LET c == cmds[k]
            first == hist[k].post.cmd
        IN  /\ InPaste(k, "undo") =>
                  /\ Top.pc > 1 => \A p \in c.connections : flow.conns[p] = 0
                  /\ Top.pc <= 2 => Range(c.nodes) \subseteq flow.nodes
                  /\ Top.pc > 2 => Range(c.nodes) \cap flow.nodes = {}
                  /\ Top.pc <= 3 => Range(c.drawings) \subseteq view.drawings
                  /\ Top.pc > 3 => Range(c.drawings) \cap view.drawings = {}
            /\ (InPaste(k, "undo") \/ (~Executing /\ hist[k].last = "undo")) =>
                  /\ c.nodes = first.nodes
                  /\ c.connections = first.connections
                  /\ c.drawings = first.drawings
            /\ (InPaste(k, "redo") /\ Top.br = "existing") =>
                  /\ Top.pc > 1 => Range(c.nodes) \subseteq flow.nodes
                  /\ Top.pc <= 2 => \A p \in c.connections : flow.conns[p] = 0
                  /\ Top.pc = 2 => EndNodes(c) \subseteq flow.nodes
                  /\ Top.pc > 2 => \A p \in c.connections : flow.conns[p] = 1

\* C23 witness: the redo_ that follows the undo_ of a paste of two nodes,
\* their connection and a drawing has re-added the nodes and is about to
\* re-add the connection.
C23_Witness ==
    \E k \in PasteCmds :
        /\ InPaste(k, "redo") /\ Top.br = "existing" /\ Top.pc = 2
        /\ hist[k].und.taken
        /\ Len(cmds[k].nodes) = 2 /\ cmds[k].connections # {}
        /\ Len(cmds[k].drawings) = 1
        /\ Range(cmds[k].drawings) \cap view.drawings = {}

\* ----------------------------------------------------------- PlaceNode

\* The calls of api that the bodies of command k have made, the executing
\* one included.
CallsTo(k, api) ==
    LET b == hist[k].calls
               (+) (IF Executing /\ Top.cmd = k THEN Top.calls ELSE EmptyBag)
    IN  BagCardinality(BagOfAll(LAMBDA e : e[1],
                                [e \in {x \in BagToSet(b) : x[1] = api} |-> b[e]]))

\* The body of op of command k has executed its last phase.
Finished(k, op) ==
    Executing /\ Top.cmd = k /\ Top.op = op /\ Top.pc > Top.n

\* C24: a PlaceNode command calls create_node at most once, in its first
\* redo_; a redo_ after the first has returned calls add_node, and only
\* add_node, with the node the first one created; when an undo_ has
\* finished, the node is not in the flow and the selection is the one the
\* constructor captured.
C24_PlaceNodeCreatesOnce ==
    \A k \in PlaceNodeCmds :
        /\ CallsTo(k, "create_node") <= 1
        /\ CallsTo(k, "create_node") = 1 =>
              \/ hist[k].post.taken
              \/ Executing /\ Top.cmd = k /\ hist[k].runs = 1
        /\ (Finished(k, "redo") /\ hist[k].post.taken) =>
              /\ Top.calls = Called("add_node", {hist[k].post.cmd.node})
              /\ cmds[k].node = hist[k].post.cmd.node
              /\ cmds[k].node \in flow.nodes
        /\ Finished(k, "undo") =>
              /\ cmds[k].node \notin flow.nodes
              /\ view.selected = hist[k].pre.cmd.prev_selected

\* Witness of C24: the second redo_ of a PlaceNode command has re-added
\* the node it created; its undo_ had restored the captured selection,
\* which is not empty and which the user has cleared since.
C24_Witness ==
    \E k \in PlaceNodeCmds :
        /\ Finished(k, "redo")
        /\ hist[k].runs = 2
        /\ hist[k].und.taken
        /\ hist[k].und.view.selected = cmds[k].prev_selected
        /\ cmds[k].prev_selected # {}
        /\ view.selected = {}
        /\ CallsTo(k, "add_node") = 1
        /\ CallsTo(k, "create_node") = 1

\* -------------------------------------------------------- PlaceDrawing

PlaceDrawingCmds == {k \in 1..Len(cmds) : cmds[k].type = "PlaceDrawing"}

\* When undo_ has finished, the recorded position is the one the drawing
\* had in the scene and the drawing is out of the scene; once a later redo_
\* has called add_drawing, the drawing is in the scene at the recorded
\* position.
PositionRecorded ==
    \A k \in PlaceDrawingCmds :
        LET c == cmds[k]
        IN  /\ Finished(k, "undo") =>
                  /\ c.drawing_obj_pos = view.dpos[c.drawing]
                  /\ c.drawing \notin view.drawings
            /\ (Executing /\ Top.cmd = k /\ Top.op = "redo" /\ Top.pc > 1
                    /\ hist[k].und.taken) =>
                  /\ c.drawing \in view.drawings
                  /\ view.dpos[c.drawing] = c.drawing_obj_pos
                  /\ hist[k].undos = 1 =>
                        c.drawing_obj_pos = hist[k].und.cmd.drawing_obj_pos

\* Every redo_ that follows an undo_ returns, and redo() clears the guard.
RedoCompletes ==
    \A k \in PlaceDrawingCmds :
        (~Executing /\ hist[k].runs >= 2) => (~raised /\ ~guard)

\* C25 (as claimed): undo_ of a PlaceDrawing command records the position
\* the drawing has at that moment before it removes it, and the next redo_
\* adds the drawing at the recorded position and completes normally, with
\* the guard cleared.
C25_PlaceDrawingRoundTrip == PositionRecorded /\ RedoCompletes

\* The redo_ that follows an undo_ has added the drawing at the recorded
\* position, which is not the placement point, and then raised: the guard
\* is left set.
C25_RaisedAfterAdding ==
    \E k \in PlaceDrawingCmds :
        /\ ~Executing /\ raised /\ guard
        /\ hist[k].runs = 2 /\ hist[k].und.taken
        /\ cmds[k].drawing \in view.drawings
        /\ view.dpos[cmds[k].drawing] = cmds[k].drawing_obj_pos
        /\ cmds[k].drawing_obj_pos # cmds[k].drawing_obj_place_pos

\* -------------------------------------------------- rejected nested calls

\* The step is a call of redo() or undo() by a callback of the executing
\* body.
NestedAttempt == Executing /\ hist'[Top.cmd].nested > hist[Top.cmd].nested

\* C26: while a body executes the guard is set; a nested redo()/undo() is
\* rejected without entering a body and leaves the guard set, and so does
\* every later one of the same outer call: no step enters a second body,
\* and the guard is set after every step but the return of the outer call.
C26_RejectionKeepsGuard ==
    [][Executing =>
          /\ guard
          /\ Len(frames') <= Len(frames)
          /\ Len(frames') = Len(frames) => guard'
          /\ NestedAttempt =>
                /\ guard' /\ frames' = frames
                /\ flow' = flow /\ view' = view /\ cmds' = cmds
                /\ \A j \in 1..Len(hist) : hist'[j].runs = hist[j].runs]_vars

\* Witness of C26: the first body of a command is executing, callbacks
\* have called redo()/undo() twice in it, a rejection has been logged and
\* no other body has been entered.
C26_Witness ==
    /\ Executing /\ guard /\ Len(frames) = 1
    /\ hist[Top.cmd].nested = 2
    /\ hist[Top.cmd].runs = 1 /\ hist[Top.cmd].last = "none"
    /\ \A j \in 1..Len(hist) : j # Top.cmd => hist[j].nested = 0
    /\ Len(cmds) = 2
    /\ errs > 0

\* ----------------------------------------------------------------- labels

\* The item list of a Move, Select or RemoveComponents command and the
\* command word its constructor passes to undo_text_multi.
LabelItems(c) == IF c.type = "Move" THEN c.items_list ELSE c.items

LabelWord(c) ==
    CASE c.type = "Move" -> "Move"
      [] c.type = "Select" -> "Select"
      [] c.type = "Remove" -> "Delete"

\* C27: the text of a Move, Select or RemoveComponents command is, from
\* its construction on, "<command> <item>" when its item list has exactly
\* one item, "Clear-<command>" when the list is empty and "Multi-<command>"
\* when it has two or more items.
C27_LabelReflectsCount ==
    \A k \in 1..Len(cmds) :
        cmds[k].type \in {"Move", "Select", "Remove"} =>
            LET c == cmds[k]
                items == LabelItems(c)
                command == LabelWord(c)
            IN  /\ \A i \in items :
                      items = {i} => c.text = command \o " " \o to_str(i)
                /\ items = {} => c.text = "Clear-" \o command
                /\ Cardinality(items) >= 2 => c.text = "Multi-" \o command

\* Witness of C27: a RemoveComponents command of the one item of node A
\* has been undone and redone, and its text is "Delete node A".
C27_Witness ==
    /\ Len(cmds) = 1 /\ ~Executing
    /\ cmds[1].type = "Remove" /\ cmds[1].items = {NodeItem("A")}
    /\ hist[1].runs = 2 /\ hist[1].last = "redo"
    /\ cmds[1].text = "Delete node A"

====
